---- MODULE Spec2Model ----
(***************************************************************************)
(* The rule-chain runtime context of rulego (engine/chain.go):             *)
(* RuleChainCtx, built by InitRuleChainCtx from a chain definition, read   *)
(* by GetNodeById / GetNodeByIndex / GetFirstNode / GetNextNodes and       *)
(* changed by ReloadSelf (Destroy, then Copy), ReloadChild and Destroy.    *)
(* Every method is split at the points where it takes or releases the      *)
(* RWMutex or touches a field without it, so that the threads interleave   *)
(* as goroutines do.                                                        *)
(***************************************************************************)
EXTENDS Integers, Sequences, FiniteSets, TLC

VARIABLES
    Id,              \* rc.Id
    SelfDefinition,  \* rc.SelfDefinition
    nodeIds,         \* rc.nodeIds
    nodes,           \* rc.nodes
    nodeRoutes,      \* rc.nodeRoutes
    relationCache,   \* rc.relationCache
    ruleChainPool,   \* rc.ruleChainPool
    aspects,         \* rc.aspects
    reloadAspects,   \* rc.reloadAspects
    destroyAspects,  \* rc.destroyAspects
    Vars,            \* rc.vars
    decryptSecrets,  \* rc.decryptSecrets
    isEmpty,         \* rc.isEmpty
    readers,         \* number of holders of rc.RWMutex in shared mode
    th,              \* per thread: the method it runs, its position and its locals
    nodeState,       \* per NodeCtx: how often Destroy ran on it
    built,           \* the definitions built so far, by instance number
    installed,       \* the instances installed in rc so far, in order
    reloaded         \* how many ReloadSelf calls with a successful decode returned

vars == <<Id, SelfDefinition, nodeIds, nodes, nodeRoutes, relationCache,
          ruleChainPool, aspects, reloadAspects, destroyAspects, Vars,
          decryptSecrets, isEmpty,
          readers, th, nodeState, built, installed, reloaded>>

chainVars == <<Id, SelfDefinition, nodeIds, nodes, nodeRoutes, relationCache,
               ruleChainPool, aspects, reloadAspects, destroyAspects, Vars,
               decryptSecrets, isEmpty>>

histVars == <<built, installed, reloaded>>

(***************************************************************************)
(* Bounds of the model.                                                    *)
(***************************************************************************)
\* ReloadSelf calls that build a new instance, in a behaviour
MaxReloads == 1
\* Destroy is called from outside only while no node was destroyed this often
MaxDestroys == 1
Threads == {1, 2}

(***************************************************************************)
(* Maps.                                                                   *)
(***************************************************************************)
EmptyMap == [k \in {} |-> 0]

\* m[k] = v of a Go map
Put(m, k, v) == [x \in DOMAIN m \cup {k} |-> IF x = k THEN v ELSE m[x]]

Range(f) == {f[x] : x \in DOMAIN f}

(***************************************************************************)
(* Identities and definitions.                                             *)
(***************************************************************************)
NODE == "NODE"
CHAIN == "CHAIN"

RuleNodeId(id, type) == [Id |-> id, Type |-> type]

NoId == RuleNodeId("", NODE)

\* A NodeCtx is an object identity: the node built by instance inst from the
\* definition at (0-based) index idx, or the root chain context of a
\* sub-chain engine, or the fresh &RuleNodeCtx{} of a failed index lookup.
NodeCtx(inst, idx) == [kind |-> "node", inst |-> inst, idx |-> idx, id |-> ""]
SubChainCtx(id) == [kind |-> "chain", inst |-> -1, idx |-> -1, id |-> id]
EmptyNodeCtx == [kind |-> "empty", inst |-> -1, idx |-> -1, id |-> ""]
NilNodeCtx == [kind |-> "nil", inst |-> -1, idx |-> -1, id |-> ""]

Connection(from, to, type) == [FromId |-> from, ToId |-> to, Type |-> type]

\* RuleChain.Configuration: nil, or the entries under types.Vars and
\* types.Secrets
NoConfiguration == [nil |-> TRUE, Vars |-> EmptyMap, Secrets |-> EmptyMap]

RuleChain(id, first, ns, conns, chainConns) ==
    [ID |-> id, FirstNodeIndex |-> first, Nodes |-> ns,
     Connections |-> conns, RuleChainConnections |-> chainConns,
     Configuration |-> NoConfiguration]

\* the definition def with a configuration of variables and secrets
Configured(def, vs, secrets) ==
    [def EXCEPT !.Configuration = [nil |-> FALSE, Vars |-> vs, Secrets |-> secrets]]

\* config.SecretKey
SecretKey == "key"

\* A value of the secrets entry: the text, and the key it is encrypted with
\* ("" when it is no ciphertext at all).
Encrypt(text, key) == [enc |-> key, text |-> text]
Plain(text) == [enc |-> "", text |-> text]

\* aes.Decrypt(value, secretKey): the plaintext, or an error
Decrypt(value, key) ==
    IF value.enc = key /\ key # ""
    THEN [plaintext |-> Plain(value.text), ok |-> TRUE]
    ELSE [plaintext |-> Plain(""), ok |-> FALSE]

Success == "Success"
Failure == "Failure"

\* S6: {a -> b}; and for Failure only targets that do not resolve
DefAB == RuleChain("c1", 0, <<"a", "b">>,
                   <<Connection("a", "b", Success), Connection("a", "z", Failure)>>,
                   <<Connection("a", "sub9", Failure)>>)
\* S6: {a -> c}
\* with a secret that decrypts, one encrypted with another key, and a variable
DefAC == Configured(RuleChain("c1", 0, <<"a", "c">>,
                              <<Connection("a", "c", Success)>>, <<>>),
                    "v" :> "1",
                    "s1" :> Encrypt("p1", SecretKey) @@ "s2" :> Encrypt("p2", "other"))
\* duplicate relations, two labels, a dangling target (z), sub-chain targets
\* that are absent from the pool (sub9), present (sub1) and present with a
\* nil root context (sub2)
\* and a secret that is no ciphertext
DefMulti == Configured(RuleChain("c2", 1, <<"a", "b">>,
                                 <<Connection("a", "b", Success),
                                   Connection("a", "z", Failure),
                                   Connection("a", "b", Success),
                                   Connection("a", "a", Failure)>>,
                                 <<Connection("a", "sub9", Success),
                                   Connection("a", "sub2", Failure),
                                   Connection("a", "sub1", Failure)>>),
                       EmptyMap,
                       "s0" :> Plain("p0"))
\* S4: no nodes
DefEmpty == RuleChain("", 0, <<>>, <<>>, <<>>)
\* first-node index beyond the node list
DefOut == Configured(RuleChain("c3", 1, <<"a">>, <<Connection("a", "a", Success)>>, <<>>),
                     "v" :> "2", EmptyMap)
\* negative first-node index
DefNeg == RuleChain("c4", -1, <<"a", "b">>,
                    <<Connection("a", "b", Success)>>, <<>>)

\* S2: two nodes without an id, connected by their default ids
DefAuto == RuleChain("c5", 0, <<"", "">>,
                     <<Connection("node0", "node1", Success)>>, <<>>)
\* two definitions with the id a, and a node without an id after a named one
DefDup == RuleChain("c6", 0, <<"a", "", "a">>,
                    <<Connection("a", "node1", Success),
                      Connection("node1", "a", Failure)>>, <<>>)

\* a node definition for which InitRuleNodeCtx returns an error
BadNode == "bad"
\* a definition whose second node cannot be built
DefBad == RuleChain("c7", 0, <<"a", "bad">>,
                    <<Connection("a", "bad", Success)>>, <<>>)

\* the configuration handed to Init: without the entry selfDefinition, with an
\* entry that is no *types.RuleChain, with a definition
NoSelfDefinition == [has |-> FALSE, isRuleChain |-> FALSE, def |-> DefEmpty]
NotARuleChain == [has |-> TRUE, isRuleChain |-> FALSE, def |-> DefEmpty]
WithSelfDefinition(def) == [has |-> TRUE, isRuleChain |-> TRUE, def |-> def]
InitDefs == {DefAC, DefBad}
Configurations ==
    {NoSelfDefinition, NotARuleChain} \cup {WithSelfDefinition(def) : def \in InitDefs}

\* the definitions a chain is first built from, and those it is reloaded with
InitialDefs == {DefAB, DefMulti, DefEmpty, DefNeg}
ReloadDefs == {DefAC, DefEmpty, DefOut, DefNeg}

\* the bytes handed to ReloadSelf: the encoding of a definition, or garbage
Garbage == <<"garbage">>
EncodeRuleChain(def) == <<"ruleChain", def>>
Bytes == {EncodeRuleChain(def) : def \in ReloadDefs} \cup {Garbage}

\* the keys GetNextNodes is called with
Sources == {RuleNodeId("a", NODE)}
Labels == {Success, Failure}

\* the definitions of the chains whose build is examined, and the ids they are
\* asked for
BuildDefs == {DefAB, DefMulti, DefEmpty, DefAuto, DefDup}
BuildSources == {RuleNodeId("a", NODE), RuleNodeId("node0", NODE)}
NodeIds == BuildSources \cup {RuleNodeId("b", NODE), RuleNodeId("node1", NODE),
                              RuleNodeId("node2", NODE), RuleNodeId("a", CHAIN),
                              RuleNodeId("sub1", CHAIN)}

\* the indexes GetNodeByIndex is called with
Indexes == {-1, 1}

\* the ids ReloadChild is called with
ChildIds == {RuleNodeId("a", NODE), RuleNodeId("z", NODE), RuleNodeId("sub1", CHAIN)}

(***************************************************************************)
(* External collaborators.                                                 *)
(***************************************************************************)
\* An aspect, and the hook interfaces it implements.
Aspect(name, onReload, onDestroy) ==
    [name |-> name, onReload |-> onReload, onDestroy |-> onDestroy]

InitialAspects == <<Aspect("h1", TRUE, TRUE), Aspect("h2", TRUE, FALSE),
                    Aspect("h3", FALSE, TRUE)>>

\* a list handed to SetAspects
OtherAspects == <<Aspect("h4", TRUE, TRUE)>>

AspectLists == {OtherAspects}

\* aspects.GetEngineAspects(): the reload hooks and the destroy hooks
GetEngineAspects(as) ==
    [reload |-> SelectSeq(as, LAMBDA a : a.onReload),
     destroy |-> SelectSeq(as, LAMBDA a : a.onDestroy)]

\* The pools are named; rc.ruleChainPool holds a name, or nil.
\* Per pool: engine id -> whether the engine's RootRuleChainCtx() is non-nil
NilPool == "nil"

Pools == [DefaultPool |-> [id \in {"sub1", "sub2"} |-> id = "sub1"],
          CustomPool |-> [id \in {"sub1", "sub2"} |-> id = "sub2"]]

\* pool.Get(id) finds an engine and its RootRuleChainCtx() is not nil
PoolHas(pool, id) == id \in DOMAIN Pools[pool] /\ Pools[pool][id]

(***************************************************************************)
(* Lookups, as functions of the fields they read.                          *)
(***************************************************************************)
\* rc.GetRuleChainPool()
GetRuleChainPool(pool) == IF pool = NilPool THEN "DefaultPool" ELSE pool

\* the body of rc.GetNodeById(id), between RLock and RUnlock
GetNodeById(ns, pool, id) ==
    IF id.Type = CHAIN
    THEN IF PoolHas(GetRuleChainPool(pool), id.Id)
         THEN [ctx |-> SubChainCtx(id.Id), ok |-> TRUE]
         ELSE [ctx |-> NilNodeCtx, ok |-> FALSE]
    ELSE IF id \in DOMAIN ns
         THEN [ctx |-> ns[id], ok |-> TRUE]
         ELSE [ctx |-> NilNodeCtx, ok |-> FALSE]

\* the test `index >= len(rc.nodeIds)` of rc.GetNodeByIndex
IndexTooLarge(ids, index) == index >= Len(ids)

\* whether the indexed read rc.nodeIds[index] panics (Go's run-time check)
IndexPanics(ids, index) == index < 0 \/ index >= Len(ids)

\* rc.GetNodeByIndex(index) when no other thread runs
GetNodeByIndex(ids, ns, pool, index) ==
    IF IndexTooLarge(ids, index)
    THEN [ctx |-> EmptyNodeCtx, ok |-> FALSE, panic |-> FALSE]
    ELSE IF IndexPanics(ids, index)
    THEN [ctx |-> NilNodeCtx, ok |-> FALSE, panic |-> TRUE]
    ELSE LET r == GetNodeById(ns, pool, ids[index + 1])
         IN  [ctx |-> r.ctx, ok |-> r.ok, panic |-> FALSE]

\* rc.GetFirstNode() when no other thread runs
GetFirstNode(def, ids, ns, pool) ==
    GetNodeByIndex(ids, ns, pool, def.FirstNodeIndex)

(***************************************************************************)
(* InitRuleChainCtx.                                                       *)
(***************************************************************************)
\* fmt.Sprintf(defaultNodeIdPrefix+"%d", index)
DefaultNodeId(index) == <<"node0", "node1", "node2", "node3">>[index + 1]

\* a loop over the nodes that keeps the first node built under an id
RECURSIVE LoadNodesFirstWins(_, _, _, _)
LoadNodesFirstWins(items, index, inst, acc) ==
    IF index >= Len(items)
    THEN acc
    ELSE LET item == items[index + 1]
             id == IF item = "" THEN DefaultNodeId(index) ELSE item
             ruleNodeId == RuleNodeId(id, NODE)
         IN  LoadNodesFirstWins(items, index + 1, inst,
                [nodeIds |-> Append(acc.nodeIds, ruleNodeId),
                 nodes |-> IF ruleNodeId \in DOMAIN acc.nodes
                           THEN acc.nodes
                           ELSE Put(acc.nodes, ruleNodeId, NodeCtx(inst, index))])

\* the loop over ruleChainDef.Metadata.Nodes, from (0-based) index on:
\* acc.nodeIds and acc.nodes after it
RECURSIVE LoadNodes(_, _, _, _)
LoadNodes(items, index, inst, acc) ==
    IF index >= Len(items)
    THEN acc
    ELSE LET item == items[index + 1]
             id == IF item = "" THEN DefaultNodeId(index) ELSE item
             ruleNodeId == RuleNodeId(id, NODE)
         IN  LoadNodes(items, index + 1, inst,
                       [nodeIds |-> Append(acc.nodeIds, ruleNodeId),
                        nodes |-> Put(acc.nodes, ruleNodeId, NodeCtx(inst, index))])

\* a build that puts each new relation in front of the node's earlier ones
RECURSIVE LoadRelationsInFront(_, _, _)
LoadRelationsInFront(items, outType, routes) ==
    IF items = <<>>
    THEN routes
    ELSE LET item == Head(items)
             inNodeId == RuleNodeId(item.FromId, NODE)
             relation == [InId |-> inNodeId,
                          OutId |-> RuleNodeId(item.ToId, outType),
                          RelationType |-> item.Type]
             nodeRelations == IF inNodeId \in DOMAIN routes
                              THEN <<relation>> \o routes[inNodeId]
                              ELSE <<relation>>
         IN  LoadRelationsInFront(Tail(items), outType,
                                  Put(routes, inNodeId, nodeRelations))

\* one of the two loops over the connections: routes after appending a
\* relation with an OutId of kind outType for every item
RECURSIVE LoadRelations(_, _, _)
LoadRelations(items, outType, routes) ==
    IF items = <<>>
    THEN routes
    ELSE LET item == Head(items)
             inNodeId == RuleNodeId(item.FromId, NODE)
             relation == [InId |-> inNodeId,
                          OutId |-> RuleNodeId(item.ToId, outType),
                          RelationType |-> item.Type]
             nodeRelations == IF inNodeId \in DOMAIN routes
                              THEN Append(routes[inNodeId], relation)
                              ELSE <<relation>>
         IN  LoadRelations(Tail(items), outType, Put(routes, inNodeId, nodeRelations))

\* whether InitRuleChainCtx panics: its call of GetFirstNode does
InitPanics(def) ==
    LET loaded == LoadNodes(def.Nodes, 0, 0, [nodeIds |-> <<>>, nodes |-> EmptyMap])
    IN  GetFirstNode(def, loaded.nodeIds, loaded.nodes, NilPool).panic

\* a decryptSecret that leaves out the entries it cannot decrypt
decryptSecretDropping(inputMap, secretKey) ==
    [key \in {k \in DOMAIN inputMap : Decrypt(inputMap[k], secretKey).ok} |->
        Decrypt(inputMap[key], secretKey).plaintext]

\* decryptSecret(inputMap, secretKey)
decryptSecret(inputMap, secretKey) ==
    [key \in DOMAIN inputMap |->
        LET got == Decrypt(inputMap[key], secretKey)
        IN  IF got.ok THEN got.plaintext ELSE inputMap[key]]

\* lines 93-99: rc.vars and rc.decryptSecrets, left nil without a configuration
LoadConfiguration(def) ==
    IF def.Configuration.nil
    THEN [Vars |-> EmptyMap, decryptSecrets |-> EmptyMap]
    ELSE [Vars |-> def.Configuration.Vars,
          decryptSecrets |-> decryptSecret(def.Configuration.Secrets, SecretKey)]

\* a build whose isEmpty tells whether the definition has no node
InitRuleChainCtxNoNodes(as, def, inst) ==
    LET loaded == LoadNodes(def.Nodes, 0, inst, [nodeIds |-> <<>>, nodes |-> EmptyMap])
        routes == LoadRelations(def.RuleChainConnections, CHAIN,
                      LoadRelations(def.Connections, NODE, EmptyMap))
        hooks == GetEngineAspects(as)
    IN  [Id |-> IF def.ID # "" THEN RuleNodeId(def.ID, CHAIN) ELSE NoId,
         SelfDefinition |-> def,
         nodeIds |-> loaded.nodeIds,
         nodes |-> loaded.nodes,
         nodeRoutes |-> routes,
         relationCache |-> EmptyMap,
         ruleChainPool |-> NilPool,
         aspects |-> as,
         reloadAspects |-> hooks.reload,
         destroyAspects |-> hooks.destroy,
         Vars |-> LoadConfiguration(def).Vars,
         decryptSecrets |-> LoadConfiguration(def).decryptSecrets,
         isEmpty |-> Len(def.Nodes) = 0,
         inst |-> inst]

\* the RuleChainCtx InitRuleChainCtx(config, aspects, def) returns, as instance inst
InitRuleChainCtx(as, def, inst) ==
    LET loaded == LoadNodes(def.Nodes, 0, inst, [nodeIds |-> <<>>, nodes |-> EmptyMap])
        routes == LoadRelations(def.RuleChainConnections, CHAIN,
                      LoadRelations(def.Connections, NODE, EmptyMap))
        first == GetFirstNode(def, loaded.nodeIds, loaded.nodes, NilPool)
        hooks == GetEngineAspects(as)
    IN  [Id |-> IF def.ID # "" THEN RuleNodeId(def.ID, CHAIN) ELSE NoId,
         SelfDefinition |-> def,
         nodeIds |-> loaded.nodeIds,
         nodes |-> loaded.nodes,
         nodeRoutes |-> routes,
         relationCache |-> EmptyMap,
         ruleChainPool |-> NilPool,
         aspects |-> as,
         reloadAspects |-> hooks.reload,
         destroyAspects |-> hooks.destroy,
         Vars |-> LoadConfiguration(def).Vars,
         decryptSecrets |-> LoadConfiguration(def).decryptSecrets,
         isEmpty |-> ~first.ok,
         inst |-> inst]

NoCtx == InitRuleChainCtx(<<>>, DefEmpty, -1)

\* InitRuleNodeCtx(config, ruleChainCtx, item) returns an error
InitRuleNodeCtxFails(item) == item = BadNode

NodeBuildErr(item) == <<"node build error", item>>

\* a loop that gives up only when the first node cannot be built
LoadNodesErrFirstOnly(items, index) ==
    IF index >= Len(items) \/ ~InitRuleNodeCtxFails(items[index + 1])
    THEN <<"nil">>
    ELSE NodeBuildErr(items[index + 1])

\* lines 103-112: the error the loop over the nodes returns with, from
\* (0-based) index on; nil when every node is built
RECURSIVE LoadNodesErr(_, _)
LoadNodesErr(items, index) ==
    IF index >= Len(items)
    THEN <<"nil">>
    ELSE IF InitRuleNodeCtxFails(items[index + 1])
    THEN NodeBuildErr(items[index + 1])
    ELSE LoadNodesErr(items, index + 1)

\* the error InitRuleChainCtx(config, aspects, def) returns; with an error it
\* returns no RuleChainCtx
InitRuleChainCtxErr(def) == LoadNodesErr(def.Nodes, 0)

\* config.Parser.DecodeRuleChain(config, aspects, def): a fresh RuleChainCtx,
\* or an error for bytes that encode no chain
DecodeFails(bytes) == bytes[1] # "ruleChain"

\* the definition the parser reads from the bytes
Decoded(bytes) == bytes[2]

(***************************************************************************)
(* Threads.                                                                *)
(***************************************************************************)
NoErr == <<"nil">>
DecodeErr == <<"decode error">>
NodeErr == <<"node reload error">>
HookErr(a) == <<"hook error", a.name>>

\* rc itself, where it is passed as a types.NodeCtx
SelfCtx == [kind |-> "self", inst |-> -1, idx |-> -1, id |-> ""]

\* an entry of a thread's trace: a call it made to a collaborator
Event(kind, hook, node, err, ret) ==
    [kind |-> kind, hook |-> hook, node |-> node, err |-> err, ret |-> ret]

\* a thread that runs no method
Idle == [op |-> "idle", pc |-> "idle", id |-> NoId, relationType |-> "",
         index |-> 0, relations |-> <<>>, nodeCtxList |-> <<>>, ok |-> FALSE,
         node |-> NilNodeCtx, ctx |-> NoCtx, err |-> NoErr, ret |-> NoErr,
         todo |-> {}, trace |-> <<>>, hit |-> FALSE, start |-> 0,
         end |-> 0, reloaded |-> 0, aspects |-> <<>>,
         configuration |-> NoSelfDefinition]

\* no thread has panicked (a panic ends the program)
Alive == \A t \in Threads : th[t].pc # "panic"

\* A thread whose call is over hands the result to its caller before another
\* thread moves: that step touches nothing shared, so no interleaving is lost.
\* GetNextNodes is the exception, its caller works with the successors while
\* the other threads run; so is SetAspects, whose caller goes on to rely on
\* the list it has installed.
Returning(t) == th[t].pc = "return" /\ th[t].op \notin {"GetNextNodes", "SetAspects"}

Running == Alive /\ \A t \in Threads : ~Returning(t)

\* Thread t may start a call: it runs none. The threads are interchangeable,
\* so of the idle ones the first starts.
CanStart(t) ==
    /\ Running
    /\ th[t].op = "idle"
    /\ \A u \in Threads : u < t => th[u].op # "idle"

Epoch == Len(installed) - 1

Set(t, r) == th' = [th EXCEPT ![t] = r]

(***************************************************************************)
(* GetNextNodes.                                                           *)
(***************************************************************************)
\* the relations from the first one of type relationType on
RECURSIVE SkipOthers(_, _)
SkipOthers(relations, relationType) ==
    IF relations = <<>> \/ Head(relations).RelationType = relationType
    THEN relations
    ELSE SkipOthers(Tail(relations), relationType)

\* a cache lookup that answers found = true on every hit
GetNextNodesCacheFound(t, id, relationType) ==
    LET cacheKey == <<id, relationType>>
        me == [Idle EXCEPT !.op = "GetNextNodes", !.id = id,
                           !.relationType = relationType, !.start = Epoch]
    IN
    /\ CanStart(t)
    /\ IF cacheKey \in DOMAIN relationCache
       THEN Set(t, [me EXCEPT !.nodeCtxList = relationCache[cacheKey],
                              !.ok = TRUE,
                              !.hit = TRUE, !.end = Epoch, !.reloaded = reloaded,
                              !.pc = "return"])
       ELSE Set(t, [me EXCEPT !.pc = "routes"])
    /\ UNCHANGED <<chainVars, readers, nodeState, histVars>>

\* lines 215-222: the cache lookup under RLock, and the return on a hit
GetNextNodesCache(t, id, relationType) ==
    LET cacheKey == <<id, relationType>>
        me == [Idle EXCEPT !.op = "GetNextNodes", !.id = id,
                           !.relationType = relationType, !.start = Epoch]
    IN
    /\ CanStart(t)
    /\ IF cacheKey \in DOMAIN relationCache
       THEN Set(t, [me EXCEPT !.nodeCtxList = relationCache[cacheKey],
                              !.ok = relationCache[cacheKey] # <<>>,
                              !.hit = TRUE, !.end = Epoch, !.reloaded = reloaded,
                              !.pc = "return"])
       ELSE Set(t, [me EXCEPT !.pc = "routes"])
    /\ UNCHANGED <<chainVars, readers, nodeState, histVars>>

\* line 225: rc.GetNodeRoutes(id), and the loop up to the first matching relation
GetNextNodesRoutes(t) ==
    LET me == th[t]
        ok == me.id \in DOMAIN nodeRoutes
        relations == IF ok THEN SkipOthers(nodeRoutes[me.id], me.relationType) ELSE <<>>
    IN
    /\ Running /\ me.op = "GetNextNodes" /\ me.pc = "routes"
    /\ Set(t, [me EXCEPT !.relations = relations,
                         !.pc = IF relations = <<>> THEN "insert" ELSE "loop"])
    /\ UNCHANGED <<chainVars, readers, nodeState, histVars>>

\* a loop that ends at the first target that does not resolve
GetNextNodesLoopStopping(t) ==
    LET me == th[t]
        item == Head(me.relations)
        got == GetNodeById(nodes, ruleChainPool, item.OutId)
        rest == IF got.ok THEN SkipOthers(Tail(me.relations), me.relationType) ELSE <<>>
    IN
    /\ Running /\ me.op = "GetNextNodes" /\ me.pc = "loop"
    /\ Set(t, [me EXCEPT !.relations = rest,
                         !.nodeCtxList = IF got.ok THEN Append(@, got.ctx) ELSE @,
                         !.ok = @ \/ got.ok,
                         !.pc = IF rest = <<>> THEN "insert" ELSE "loop"])
    /\ UNCHANGED <<chainVars, readers, nodeState, histVars>>

\* lines 229-234: rc.GetNodeById(item.OutId) for the next matching relation
GetNextNodesLoop(t) ==
    LET me == th[t]
        item == Head(me.relations)
        got == GetNodeById(nodes, ruleChainPool, item.OutId)
        rest == SkipOthers(Tail(me.relations), me.relationType)
    IN
    /\ Running /\ me.op = "GetNextNodes" /\ me.pc = "loop"
    /\ Set(t, [me EXCEPT !.relations = rest,
                         !.nodeCtxList = IF got.ok THEN Append(@, got.ctx) ELSE @,
                         !.ok = @ \/ got.ok,
                         !.pc = IF rest = <<>> THEN "insert" ELSE "loop"])
    /\ UNCHANGED <<chainVars, readers, nodeState, histVars>>

\* lines 237-241: the insertion under Lock, and the return
GetNextNodesInsert(t) ==
    LET me == th[t] IN
    /\ Running /\ me.op = "GetNextNodes" /\ me.pc = "insert"
    /\ readers = 0
    /\ relationCache' = Put(relationCache, <<me.id, me.relationType>>, me.nodeCtxList)
    /\ Set(t, [me EXCEPT !.end = Epoch, !.reloaded = reloaded, !.pc = "return"])
    /\ UNCHANGED <<Id, SelfDefinition, nodeIds, nodes, nodeRoutes, ruleChainPool,
                   aspects, reloadAspects, destroyAspects, Vars, decryptSecrets,
                   isEmpty, readers, nodeState, histVars>>

\* the caller has the result
GetNextNodesReturn(t) ==
    /\ Alive /\ th[t].op = "GetNextNodes" /\ th[t].pc = "return"
    /\ Set(t, Idle)
    /\ UNCHANGED <<chainVars, readers, nodeState, histVars>>

GetNextNodes(t) ==
    \/ \E id \in Sources, relationType \in Labels : GetNextNodesCache(t, id, relationType)
    \/ GetNextNodesRoutes(t)
    \/ GetNextNodesLoop(t)
    \/ GetNextNodesInsert(t)
    \/ GetNextNodesReturn(t)

(***************************************************************************)
(* Destroy.                                                                *)
(***************************************************************************)
FreshNode == [destroyed |-> 0]

StateOf(v) == IF v \in DOMAIN nodeState THEN nodeState[v] ELSE FreshNode

\* line 273 and the start of the loop of line 275: RLock, range rc.nodes
DestroyLock(t, me) ==
    /\ readers' = readers + 1
    /\ Set(t, [me EXCEPT !.todo = Range(nodes),
                         !.pc = IF Range(nodes) = {} THEN "aspects" ELSE "nodes"])
    /\ UNCHANGED <<chainVars, nodeState, histVars>>

\* lines 275-278: temp.Destroy() for one more node of the map, in any order
DestroyNode(t, op) ==
    LET me == th[t] IN
    /\ Running /\ me.op = op /\ me.pc = "nodes"
    /\ \E v \in me.todo :
          /\ nodeState' = Put(nodeState, v, [StateOf(v) EXCEPT !.destroyed = @ + 1])
          /\ Set(t, [me EXCEPT !.todo = @ \ {v},
                               !.trace = Append(@, Event("Destroy", "", v, NoErr, NoErr)),
                               !.pc = IF me.todo = {v} THEN "aspects" ELSE "nodes"])
    /\ UNCHANGED <<chainVars, readers, histVars>>

\* destroy hooks called from the last one to the first
RECURSIVE OnDestroyLoopBackwards(_, _, _)
OnDestroyLoopBackwards(hooks, i, trace) ==
    IF i > Len(hooks)
    THEN trace
    ELSE LET hook == hooks[Len(hooks) + 1 - i]
         IN  OnDestroyLoopBackwards(hooks, i + 1,
                Append(trace, Event("OnDestroy", hook.name, SelfCtx, NoErr, NoErr)))

\* the calls of lines 280-282 for the hooks from (1-based) position i on
RECURSIVE OnDestroyLoop(_, _, _)
OnDestroyLoop(hooks, i, trace) ==
    IF i > Len(hooks)
    THEN trace
    ELSE OnDestroyLoop(hooks, i + 1,
                       Append(trace, Event("OnDestroy", hooks[i].name, SelfCtx, NoErr, NoErr)))

\* lines 280-283: aop.OnDestroy(rc) for every destroy hook, and RUnlock
DestroyAspects(t, op) ==
    LET me == th[t] IN
    /\ Running /\ me.op = op /\ me.pc = "aspects"
    /\ readers' = readers - 1
    /\ Set(t, [me EXCEPT !.trace = OnDestroyLoop(destroyAspects, 1, @),
                         !.pc = IF me.op = "ReloadSelf" THEN "copy" ELSE "return"])
    /\ UNCHANGED <<chainVars, nodeState, histVars>>

\* rc.Destroy() called from outside
DestroyCall(t) ==
    /\ CanStart(t)
    /\ \A v \in DOMAIN nodeState : nodeState[v].destroyed < MaxDestroys
    /\ DestroyLock(t, [Idle EXCEPT !.op = "Destroy"])

DestroyReturn(t) ==
    /\ Alive /\ th[t].op = "Destroy" /\ th[t].pc = "return"
    /\ Set(t, Idle)
    /\ UNCHANGED <<chainVars, readers, nodeState, histVars>>

Destroy(t) ==
    \/ DestroyCall(t)
    \/ DestroyNode(t, "Destroy")
    \/ DestroyAspects(t, "Destroy")
    \/ DestroyReturn(t)

(***************************************************************************)
(* Copy and ReloadSelf.                                                    *)
(***************************************************************************)
\* a Copy that leaves rc.ruleChainPool as it is
CopyKeepingPool(newCtx) ==
    /\ readers = 0
    /\ Id' = newCtx.Id
    /\ SelfDefinition' = newCtx.SelfDefinition
    /\ nodeIds' = newCtx.nodeIds
    /\ nodes' = newCtx.nodes
    /\ nodeRoutes' = newCtx.nodeRoutes
    /\ aspects' = newCtx.aspects
    /\ reloadAspects' = newCtx.reloadAspects
    /\ destroyAspects' = newCtx.destroyAspects
    /\ Vars' = newCtx.Vars
    /\ decryptSecrets' = newCtx.decryptSecrets
    /\ relationCache' = EmptyMap
    /\ UNCHANGED <<isEmpty, ruleChainPool>>
    /\ installed' = Append(installed, newCtx.inst)

\* lines 335-353: the assignments of rc.Copy(newCtx), under Lock
Copy(newCtx) ==
    /\ readers = 0
    /\ Id' = newCtx.Id
    /\ SelfDefinition' = newCtx.SelfDefinition
    /\ nodeIds' = newCtx.nodeIds
    /\ nodes' = newCtx.nodes
    /\ nodeRoutes' = newCtx.nodeRoutes
    /\ ruleChainPool' = newCtx.ruleChainPool
    /\ aspects' = newCtx.aspects
    /\ reloadAspects' = newCtx.reloadAspects
    /\ destroyAspects' = newCtx.destroyAspects
    /\ Vars' = newCtx.Vars
    /\ decryptSecrets' = newCtx.decryptSecrets
    /\ relationCache' = EmptyMap
    /\ UNCHANGED isEmpty
    /\ installed' = Append(installed, newCtx.inst)

\* reload hooks that are passed over when err is not nil
RECURSIVE OnReloadLoopOnSuccess(_, _, _, _, _, _)
OnReloadLoopOnSuccess(hooks, i, node, err, failAt, trace) ==
    IF i > Len(hooks) \/ err # NoErr
    THEN [trace |-> trace, ret |-> err]
    ELSE LET ret == IF i = failAt THEN HookErr(hooks[i]) ELSE NoErr
             called == Append(trace, Event("OnReload", hooks[i].name, node, err, ret))
         IN  IF ret # NoErr
             THEN [trace |-> called, ret |-> ret]
             ELSE OnReloadLoopOnSuccess(hooks, i + 1, node, err, failAt, called)

\* the loop of lines 301-305 (and 314-318) from (1-based) position i on: the
\* calls made and the value returned, when hook number failAt (if any)
\* answers with an error
RECURSIVE OnReloadLoop(_, _, _, _, _, _)
OnReloadLoop(hooks, i, node, err, failAt, trace) ==
    IF i > Len(hooks)
    THEN [trace |-> trace, ret |-> err]
    ELSE LET ret == IF i = failAt THEN HookErr(hooks[i]) ELSE NoErr
             called == Append(trace, Event("OnReload", hooks[i].name, node, err, ret))
         IN  IF ret # NoErr
             THEN [trace |-> called, ret |-> ret]
             ELSE OnReloadLoop(hooks, i + 1, node, err, failAt, called)

\* a ReloadSelf that destroys the nodes before it looks at the decoding error
ReloadSelfDecodeDestroying(t, bytes) ==
    /\ CanStart(t)
    /\ DecodeFails(bytes) \/ Len(built) <= MaxReloads
    /\ IF DecodeFails(bytes)
       THEN /\ Set(t, [Idle EXCEPT !.op = "ReloadSelf", !.pc = "destroy", !.err = DecodeErr])
            /\ UNCHANGED built
       ELSE IF InitPanics(Decoded(bytes))
       THEN /\ Set(t, [Idle EXCEPT !.op = "ReloadSelf", !.pc = "panic"])
            /\ UNCHANGED built
       ELSE /\ Set(t, [Idle EXCEPT !.op = "ReloadSelf", !.pc = "destroy",
                             !.ctx = InitRuleChainCtx(aspects, Decoded(bytes), Len(built))])
            /\ built' = Append(built, Decoded(bytes))
    /\ UNCHANGED <<chainVars, readers, nodeState, installed, reloaded>>

\* line 296: DecodeRuleChain(rc.config, rc.aspects, def)
ReloadSelfDecode(t, bytes) ==
    /\ CanStart(t)
    /\ DecodeFails(bytes) \/ Len(built) <= MaxReloads
    /\ IF DecodeFails(bytes)
       THEN /\ Set(t, [Idle EXCEPT !.op = "ReloadSelf", !.pc = "reload", !.err = DecodeErr])
            /\ UNCHANGED built
       ELSE IF InitPanics(Decoded(bytes))
       THEN /\ Set(t, [Idle EXCEPT !.op = "ReloadSelf", !.pc = "panic"])
            /\ UNCHANGED built
       ELSE /\ Set(t, [Idle EXCEPT !.op = "ReloadSelf", !.pc = "destroy",
                             !.ctx = InitRuleChainCtx(aspects, Decoded(bytes), Len(built))])
            /\ built' = Append(built, Decoded(bytes))
    /\ UNCHANGED <<chainVars, readers, nodeState, installed, reloaded>>

\* line 297: rc.Destroy()
ReloadSelfDestroy(t) ==
    /\ Running /\ th[t].op = "ReloadSelf" /\ th[t].pc = "destroy"
    /\ DestroyLock(t, th[t])

\* line 298: rc.Copy(ctx.(*RuleChainCtx))
ReloadSelfCopy(t) ==
    /\ Running /\ th[t].op = "ReloadSelf" /\ th[t].pc = "copy"
    /\ Copy(th[t].ctx)
    /\ Set(t, [th[t] EXCEPT !.pc = "reload"])
    /\ UNCHANGED <<readers, nodeState, built, reloaded>>

\* lines 301-306: the reload hooks
ReloadSelfAspects(t) ==
    LET me == th[t] IN
    /\ Running /\ me.op = "ReloadSelf" /\ me.pc = "reload"
    /\ \E failAt \in 0 .. Len(reloadAspects) :
          LET done == OnReloadLoop(reloadAspects, 1, SelfCtx, me.err, failAt, me.trace)
          IN  Set(t, [me EXCEPT !.trace = done.trace, !.ret = done.ret, !.pc = "return"])
    /\ UNCHANGED <<chainVars, readers, nodeState, histVars>>

ReloadSelfReturn(t) ==
    /\ Alive /\ th[t].op = "ReloadSelf" /\ th[t].pc = "return"
    /\ reloaded' = IF th[t].err = NoErr THEN reloaded + 1 ELSE reloaded
    /\ Set(t, Idle)
    /\ UNCHANGED <<chainVars, readers, nodeState, built, installed>>

ReloadSelf(t) ==
    \/ \E bytes \in Bytes : ReloadSelfDecode(t, bytes)
    \/ ReloadSelfDestroy(t)
    \/ DestroyNode(t, "ReloadSelf")
    \/ DestroyAspects(t, "ReloadSelf")
    \/ ReloadSelfCopy(t)
    \/ ReloadSelfAspects(t)
    \/ ReloadSelfReturn(t)

(***************************************************************************)
(* GetNodeByIndex and GetFirstNode.                                        *)
(***************************************************************************)
\* line 193: the bounds test, on the rc.nodeIds of this moment
GetNodeByIndexCheck(t, me) ==
    /\ IF IndexTooLarge(nodeIds, me.index)
       THEN Set(t, [me EXCEPT !.node = EmptyNodeCtx, !.ok = FALSE, !.pc = "return"])
       ELSE Set(t, [me EXCEPT !.pc = "index"])
    /\ UNCHANGED <<chainVars, readers, nodeState, histVars>>

\* rc.GetNodeByIndex(index) called from outside
GetNodeByIndexCall(t, index) ==
    /\ CanStart(t)
    /\ GetNodeByIndexCheck(t, [Idle EXCEPT !.op = "GetNodeByIndex", !.index = index,
                                     !.start = Epoch])

\* line 201: rc.GetFirstNode() reads the index from rc.SelfDefinition
GetFirstNodeCall(t) ==
    /\ CanStart(t)
    /\ Set(t, [Idle EXCEPT !.op = "GetFirstNode", !.pc = "check", !.start = Epoch,
                          !.index = SelfDefinition.FirstNodeIndex])
    /\ UNCHANGED <<chainVars, readers, nodeState, histVars>>

\* line 202: rc.GetNodeByIndex(firstNodeIndex)
GetFirstNodeCheck(t) ==
    /\ Running /\ th[t].op = "GetFirstNode" /\ th[t].pc = "check"
    /\ GetNodeByIndexCheck(t, th[t])

\* line 196: the read of rc.nodeIds[index], on the rc.nodeIds of this moment
GetNodeByIndexRead(t) ==
    LET me == th[t] IN
    /\ Running /\ me.op \in {"GetNodeByIndex", "GetFirstNode"} /\ me.pc = "index"
    /\ IF IndexPanics(nodeIds, me.index)
       THEN Set(t, [me EXCEPT !.pc = "panic"])
       ELSE Set(t, [me EXCEPT !.id = nodeIds[me.index + 1], !.pc = "lookup"])
    /\ UNCHANGED <<chainVars, readers, nodeState, histVars>>

\* line 196: rc.GetNodeById(id)
GetNodeByIndexLookup(t) ==
    LET me == th[t]
        got == GetNodeById(nodes, ruleChainPool, me.id)
    IN
    /\ Running /\ me.op \in {"GetNodeByIndex", "GetFirstNode"} /\ me.pc = "lookup"
    /\ Set(t, [me EXCEPT !.node = got.ctx, !.ok = got.ok, !.pc = "return"])
    /\ UNCHANGED <<chainVars, readers, nodeState, histVars>>

GetNodeByIndexReturn(t) ==
    /\ Alive /\ th[t].op \in {"GetNodeByIndex", "GetFirstNode"} /\ th[t].pc = "return"
    /\ Set(t, Idle)
    /\ UNCHANGED <<chainVars, readers, nodeState, histVars>>

GetNodeByIndexOp(t) ==
    \/ \E index \in Indexes : GetNodeByIndexCall(t, index)
    \/ GetFirstNodeCall(t)
    \/ GetFirstNodeCheck(t)
    \/ GetNodeByIndexRead(t)
    \/ GetNodeByIndexLookup(t)
    \/ GetNodeByIndexReturn(t)

(***************************************************************************)
(* SetRuleChainPool.                                                       *)
(***************************************************************************)
\* line 358: the assignment, without the lock; a call that installs the pool
\* already installed changes nothing
SetRuleChainPool(t, pool) ==
    /\ CanStart(t)
    /\ pool # ruleChainPool
    /\ ruleChainPool' = pool
    /\ UNCHANGED <<Id, SelfDefinition, nodeIds, nodes, nodeRoutes, relationCache, aspects,
                   reloadAspects, destroyAspects, Vars, decryptSecrets, isEmpty, readers,
                   th, nodeState, histVars>>

(***************************************************************************)
(* SetAspects: three assignments, without the lock.                        *)
(***************************************************************************)
\* line 371: rc.aspects = aspects
SetAspectsCall(t, list) ==
    /\ CanStart(t)
    /\ aspects' = list
    /\ Set(t, [Idle EXCEPT !.op = "SetAspects", !.pc = "reloadAspects", !.aspects = list])
    /\ UNCHANGED <<Id, SelfDefinition, nodeIds, nodes, nodeRoutes, relationCache,
                   ruleChainPool, reloadAspects, destroyAspects, Vars, decryptSecrets,
                   isEmpty, readers, nodeState, histVars>>

\* lines 372-373: rc.reloadAspects = reloadAspects
SetAspectsReload(t) ==
    /\ Running /\ th[t].op = "SetAspects" /\ th[t].pc = "reloadAspects"
    /\ reloadAspects' = GetEngineAspects(th[t].aspects).reload
    /\ Set(t, [th[t] EXCEPT !.pc = "destroyAspects"])
    /\ UNCHANGED <<Id, SelfDefinition, nodeIds, nodes, nodeRoutes, relationCache,
                   ruleChainPool, aspects, destroyAspects, Vars, decryptSecrets,
                   isEmpty, readers, nodeState, histVars>>

\* line 374: rc.destroyAspects = destroyAspects
SetAspectsDestroy(t) ==
    /\ Running /\ th[t].op = "SetAspects" /\ th[t].pc = "destroyAspects"
    /\ destroyAspects' = GetEngineAspects(th[t].aspects).destroy
    /\ Set(t, [th[t] EXCEPT !.pc = "return"])
    /\ UNCHANGED <<Id, SelfDefinition, nodeIds, nodes, nodeRoutes, relationCache,
                   ruleChainPool, aspects, reloadAspects, Vars, decryptSecrets,
                   isEmpty, readers, nodeState, histVars>>

SetAspectsReturn(t) ==
    /\ Alive /\ th[t].op = "SetAspects" /\ th[t].pc = "return"
    /\ Set(t, Idle)
    /\ UNCHANGED <<chainVars, readers, nodeState, histVars>>

SetAspects(t) ==
    \/ \E list \in AspectLists : SetAspectsCall(t, list)
    \/ SetAspectsReload(t)
    \/ SetAspectsDestroy(t)
    \/ SetAspectsReturn(t)

(***************************************************************************)
(* Init.                                                                   *)
(***************************************************************************)
\* lines 255-264 up to the swap: the two type tests and the build
InitCall(t, configuration) ==
    LET me == [Idle EXCEPT !.op = "Init", !.configuration = configuration]
        def == configuration.def
        err == InitRuleChainCtxErr(def)
    IN  /\ CanStart(t)
        /\ IF ~configuration.has \/ ~configuration.isRuleChain
           THEN /\ Set(t, [me EXCEPT !.pc = "return"])
                /\ UNCHANGED built
           ELSE IF err # NoErr
           THEN /\ Set(t, [me EXCEPT !.pc = "return", !.err = err, !.ret = err])
                /\ UNCHANGED built
           ELSE IF InitPanics(def)
           THEN /\ Set(t, [me EXCEPT !.pc = "panic"])
                /\ UNCHANGED built
           ELSE /\ Len(built) <= MaxReloads
                /\ Set(t, [me EXCEPT !.pc = "copy",
                                     !.ctx = InitRuleChainCtx(aspects, def, Len(built))])
                /\ built' = Append(built, def)
        /\ UNCHANGED <<chainVars, readers, nodeState, installed, reloaded>>

\* line 258: rc.Copy(ruleChainCtx), and line 264
InitCopy(t) ==
    /\ Running /\ th[t].op = "Init" /\ th[t].pc = "copy"
    /\ Copy(th[t].ctx)
    /\ Set(t, [th[t] EXCEPT !.pc = "return"])
    /\ UNCHANGED <<readers, nodeState, built, reloaded>>

InitReturn(t) ==
    /\ Alive /\ th[t].op = "Init" /\ th[t].pc = "return"
    /\ Set(t, Idle)
    /\ UNCHANGED <<chainVars, readers, nodeState, histVars>>

InitOp(t) ==
    \/ \E configuration \in Configurations : InitCall(t, configuration)
    \/ InitCopy(t)
    \/ InitReturn(t)

(***************************************************************************)
(* GetNodeById, called from outside.                                       *)
(***************************************************************************)
\* lines 176-189: the whole lookup runs under RLock
GetNodeByIdCall(t, id) ==
    LET got == GetNodeById(nodes, ruleChainPool, id) IN
    /\ CanStart(t)
    /\ Set(t, [Idle EXCEPT !.op = "GetNodeById", !.id = id, !.node = got.ctx,
                          !.ok = got.ok, !.start = Epoch, !.pc = "return"])
    /\ UNCHANGED <<chainVars, readers, nodeState, histVars>>

GetNodeByIdReturn(t) ==
    /\ Alive /\ th[t].op = "GetNodeById" /\ th[t].pc = "return"
    /\ Set(t, Idle)
    /\ UNCHANGED <<chainVars, readers, nodeState, histVars>>

GetNodeByIdOp(t) ==
    \/ \E id \in NodeIds : GetNodeByIdCall(t, id)
    \/ GetNodeByIdReturn(t)

(***************************************************************************)
(* ReloadChild.                                                            *)
(***************************************************************************)
\* line 310: rc.GetNodeById(ruleNodeId)
ReloadChildFind(t, ruleNodeId) ==
    LET got == GetNodeById(nodes, ruleChainPool, ruleNodeId) IN
    /\ CanStart(t)
    /\ Set(t, [Idle EXCEPT !.op = "ReloadChild", !.id = ruleNodeId, !.node = got.ctx,
                          !.ok = got.ok, !.pc = IF got.ok THEN "child" ELSE "return"])
    /\ UNCHANGED <<chainVars, readers, nodeState, histVars>>

\* a child reload that also empties the relation cache
ReloadChildNodeInvalidating(t) ==
    LET me == th[t] IN
    /\ Running /\ me.op = "ReloadChild" /\ me.pc = "child"
    /\ \E err \in {NoErr, NodeErr}, failAt \in 0 .. Len(reloadAspects) :
          LET called == <<Event("ReloadSelf", "", me.node, NoErr, err)>>
              done == OnReloadLoop(reloadAspects, 1, me.node, err, failAt, called)
          IN  Set(t, [me EXCEPT !.err = err, !.trace = done.trace, !.ret = done.ret,
                                !.pc = "return"])
    /\ relationCache' = EmptyMap
    /\ UNCHANGED <<Id, SelfDefinition, nodeIds, nodes, nodeRoutes, ruleChainPool, aspects,
                   reloadAspects, destroyAspects, Vars, decryptSecrets, isEmpty, readers,
                   nodeState, histVars>>

\* lines 312-319: node.ReloadSelf(def), whose result is the node's affair,
\* then the reload hooks
ReloadChildNode(t) ==
    LET me == th[t] IN
    /\ Running /\ me.op = "ReloadChild" /\ me.pc = "child"
    /\ \E err \in {NoErr, NodeErr}, failAt \in 0 .. Len(reloadAspects) :
          LET called == <<Event("ReloadSelf", "", me.node, NoErr, err)>>
              done == OnReloadLoop(reloadAspects, 1, me.node, err, failAt, called)
          IN  Set(t, [me EXCEPT !.err = err, !.trace = done.trace, !.ret = done.ret,
                                !.pc = "return"])
    /\ UNCHANGED <<chainVars, readers, nodeState, histVars>>

ReloadChildReturn(t) ==
    /\ Alive /\ th[t].op = "ReloadChild" /\ th[t].pc = "return"
    /\ Set(t, Idle)
    /\ UNCHANGED <<chainVars, readers, nodeState, histVars>>

ReloadChild(t) ==
    \/ \E ruleNodeId \in ChildIds : ReloadChildFind(t, ruleNodeId)
    \/ ReloadChildNode(t)
    \/ ReloadChildReturn(t)

(***************************************************************************)
(* The program.                                                            *)
(***************************************************************************)
Init ==
    \E def \in InitialDefs :
       /\ ~InitPanics(def)
       /\ LET rc == InitRuleChainCtx(InitialAspects, def, 0) IN
          /\ Id = rc.Id
          /\ SelfDefinition = rc.SelfDefinition
          /\ nodeIds = rc.nodeIds
          /\ nodes = rc.nodes
          /\ nodeRoutes = rc.nodeRoutes
          /\ relationCache = rc.relationCache
          /\ ruleChainPool = rc.ruleChainPool
          /\ aspects = rc.aspects
          /\ reloadAspects = rc.reloadAspects
          /\ destroyAspects = rc.destroyAspects
          /\ Vars = rc.Vars
          /\ decryptSecrets = rc.decryptSecrets
          /\ isEmpty = rc.isEmpty
       /\ built = <<def>>
       /\ installed = <<0>>
       /\ readers = 0
       /\ th = [t \in Threads |-> Idle]
       /\ nodeState = EmptyMap
       /\ reloaded = 0

Next ==
    \E t \in Threads :
       \/ GetNextNodes(t)
       \/ GetNodeByIndexOp(t)
       \/ Destroy(t)
       \/ ReloadSelf(t)
       \/ ReloadChild(t)
       \/ GetNodeByIdOp(t)
       \/ InitOp(t)
       \/ SetAspects(t)
       \/ \E pool \in DOMAIN Pools : SetRuleChainPool(t, pool)

Spec == Init /\ [][Next]_vars

\* The program restricted to the methods a group of claims is about.
NextNext == \E t \in Threads : GetNextNodes(t) \/ ReloadSelf(t)

SpecNext == Init /\ [][NextNext]_vars

NextLookup == \E t \in Threads : GetNodeByIndexOp(t) \/ ReloadSelf(t)

SpecLookup == Init /\ [][NextLookup]_vars

NextReload == \E t \in Threads : ReloadSelf(t) \/ Destroy(t)

SpecReload == Init /\ [][NextReload]_vars

\* one thread reloads the chain, the other reloads children, both resolve
\* successors
NextChild ==
    \/ ReloadSelf(1)
    \/ ReloadChild(2)
    \/ \E t \in Threads : GetNextNodes(t)

SpecChild == Init /\ [][NextChild]_vars

\* The chains InitRuleChainCtx builds from the definitions BuildDefs, and the
\* lookups on them.
InitBuild ==
    \E def \in BuildDefs :
       LET rc == InitRuleChainCtx(InitialAspects, def, 0) IN
       /\ Id = rc.Id
       /\ SelfDefinition = rc.SelfDefinition
       /\ nodeIds = rc.nodeIds
       /\ nodes = rc.nodes
       /\ nodeRoutes = rc.nodeRoutes
       /\ relationCache = rc.relationCache
       /\ ruleChainPool = rc.ruleChainPool
       /\ aspects = rc.aspects
       /\ reloadAspects = rc.reloadAspects
       /\ destroyAspects = rc.destroyAspects
       /\ Vars = rc.Vars
       /\ decryptSecrets = rc.decryptSecrets
       /\ isEmpty = rc.isEmpty
       /\ built = <<def>>
       /\ installed = <<0>>
       /\ readers = 0
       /\ th = [t \in Threads |-> Idle]
       /\ nodeState = EmptyMap
       /\ reloaded = 0

NextBuild ==
    \E t \in Threads :
       \/ GetNodeByIdOp(t)
       \/ \E id \in BuildSources, relationType \in Labels :
             GetNextNodesCache(t, id, relationType)
       \/ GetNextNodesRoutes(t)
       \/ GetNextNodesLoop(t)
       \/ GetNextNodesInsert(t)
       \/ GetNextNodesReturn(t)

SpecBuild == InitBuild /\ [][NextBuild]_vars

\* one thread installs a pool and reloads the chain, both resolve successors
NextPool ==
    \/ SetRuleChainPool(1, "CustomPool")
    \/ ReloadSelf(1)
    \/ \E t \in Threads : GetNextNodes(t)

SpecPool == Init /\ [][NextPool]_vars

\* aspects installed while the chain is reloaded
NextAspects == \E t \in Threads : SetAspects(t) \/ ReloadSelf(t)

SpecAspects == Init /\ [][NextAspects]_vars

\* one thread initializes the chain, both resolve successors
NextInit == InitOp(1) \/ \E t \in Threads : GetNextNodes(t)

SpecInit == Init /\ [][NextInit]_vars

\* readers and destructions
NextLock == \E t \in Threads : GetNextNodes(t) \/ GetNodeByIndexOp(t) \/ Destroy(t)

SpecLock == Init /\ [][NextLock]_vars

(***************************************************************************)
(* What the definition says: the successors of (id, relationType) in the   *)
(* chain built from def as instance inst, read off the definition.         *)
(***************************************************************************)
Max(S) == CHOOSE x \in S : \A y \in S : y <= x

\* the id of the (1-based) i-th node definition
NodeIdAt(def, i) == IF def.Nodes[i] = "" THEN DefaultNodeId(i - 1) ELSE def.Nodes[i]

\* the NodeCtx a connection to toId leads to, or NilNodeCtx
NodeTarget(def, inst, toId) ==
    LET at == {i \in 1 .. Len(def.Nodes) : NodeIdAt(def, i) = toId}
    IN  IF at = {} THEN NilNodeCtx ELSE NodeCtx(inst, Max(at) - 1)

ChainTarget(pool, toId) ==
    IF PoolHas(GetRuleChainPool(pool), toId) THEN SubChainCtx(toId) ELSE NilNodeCtx

ExpectedNext(def, inst, pool, id, relationType) ==
    LET from(conns) == SelectSeq(conns, LAMBDA c : /\ id.Type = NODE
                                                   /\ c.FromId = id.Id
                                                   /\ c.Type = relationType)
        toNodes == from(def.Connections)
        toChains == from(def.RuleChainConnections)
        targets == [i \in 1 .. Len(toNodes) |-> NodeTarget(def, inst, toNodes[i].ToId)]
                   \o [i \in 1 .. Len(toChains) |-> ChainTarget(pool, toChains[i].ToId)]
    IN  SelectSeq(targets, LAMBDA v : v # NilNodeCtx)

\* the instance installed in epoch e (after e swaps), and its definition
InstanceAt(e) == installed[e + 1]
DefinitionAt(e) == built[InstanceAt(e) + 1]

\* the successors of the key of thread t's call in the chain of epoch e
ExpectedAt(e, t) ==
    ExpectedNext(DefinitionAt(e), InstanceAt(e), ruleChainPool, th[t].id, th[t].relationType)

\* thread t holds the result of a GetNextNodes call
Returned(t) == th[t].op = "GetNextNodes" /\ th[t].pc = "return"

(***************************************************************************)
(* C1 (as claimed). Once a ReloadSelf with a successful decode has         *)
(* returned, every GetNextNodes call that returns yields the successors    *)
(* of the installed definition, and after a swap the relation cache holds  *)
(* no entry that differs from the resolution against the installed         *)
(* definition.                                                             *)
(***************************************************************************)
C1_ReloadIsVisible ==
    /\ \A t \in Threads :
          Returned(t) /\ th[t].reloaded >= 1 =>
             th[t].nodeCtxList = ExpectedAt(th[t].end, t)
    /\ Epoch >= 1 =>
          \A key \in DOMAIN relationCache :
             relationCache[key] =
                ExpectedNext(DefinitionAt(Epoch), InstanceAt(Epoch), ruleChainPool,
                             key[1], key[2])

(***************************************************************************)
(* C2 (as claimed). Every list GetNextNodes returns is the resolution of   *)
(* its key against one version of the chain, among those installed up to   *)
(* the return.                                                             *)
(***************************************************************************)
C2_NoTornRead ==
    \A t \in Threads :
       Returned(t) => \E e \in 0 .. th[t].end : th[t].nodeCtxList = ExpectedAt(e, t)

(***************************************************************************)
(* C3. A GetNextNodes call that runs within one epoch, and that misses the *)
(* cache or runs on the chain as first built, returns the resolvable       *)
(* targets of the connections of its key in the definition: the            *)
(* node-to-node connections in definition order, then the node-to-subchain *)
(* ones, one successor per connection.                                     *)
(***************************************************************************)
C3_SuccessorsInDefinitionOrder ==
    \A t \in Threads :
       /\ Returned(t)
       /\ th[t].start = th[t].end
       /\ ~th[t].hit \/ th[t].end = 0
       => th[t].nodeCtxList = ExpectedAt(th[t].end, t)

\* both keys of DefMulti are resolved: duplicates for Success; for Failure a
\* dangling node and a nil sub-chain dropped, the node before the sub-chain
C3_Witness ==
    /\ built[1] = DefMulti /\ Epoch = 0
    /\ Returned(1) /\ th[1].relationType = Success /\ th[1].hit
    /\ th[1].nodeCtxList = <<NodeCtx(0, 1), NodeCtx(0, 1)>>
    /\ Returned(2) /\ th[2].relationType = Failure /\ ~th[2].hit
    /\ th[2].nodeCtxList = <<NodeCtx(0, 0), SubChainCtx("sub1")>>

(***************************************************************************)
(* C4 (as claimed). Two GetNextNodes calls with the same key, with no swap *)
(* between the start of the first and the return of the last, return the   *)
(* same list.                                                              *)
(***************************************************************************)
C4_SameListWithoutReload ==
    \A t, u \in Threads :
       /\ Returned(t) /\ Returned(u)
       /\ th[t].id = th[u].id /\ th[t].relationType = th[u].relationType
       /\ th[t].start = th[t].end /\ th[u].start = th[u].end /\ th[t].end = th[u].end
       => th[t].nodeCtxList = th[u].nodeCtxList

\* the first node index of def selects no node
FirstOutOfRange(def) ==
    def.FirstNodeIndex < 0 \/ def.FirstNodeIndex >= Len(def.Nodes)

\* thread t holds the result of a GetFirstNode call during which no swap
\* took place
FirstNodeReturned(t) ==
    th[t].op = "GetFirstNode" /\ th[t].pc = "return" /\ th[t].start = Epoch

\* the chains InitRuleChainCtx has built: the one the program starts with,
\* until it is reloaded, and the ones ReloadSelf has decoded
BuiltIsEmpty(empty) ==
    /\ Epoch = 0 /\ FirstOutOfRange(SelfDefinition) => isEmpty = empty
    /\ \A t \in Threads :
          th[t].ctx # NoCtx /\ FirstOutOfRange(th[t].ctx.SelfDefinition)
             => th[t].ctx.isEmpty = empty

C6_IsEmptyIffNoNodes == isEmpty <=> Len(SelfDefinition.Nodes) = 0

(***************************************************************************)
(* C7 (as claimed). GetNodeByIndex and GetFirstNode never fail: no call    *)
(* of them ends in a panic, whatever the index and whatever a concurrent   *)
(* ReloadSelf does.                                                        *)
(***************************************************************************)
C7_LookupsNeverFail ==
    \A t \in Threads :
       th[t].op \in {"GetNodeByIndex", "GetFirstNode"} => th[t].pc # "panic"

\* the calls of one kind in a trace, in order
OfKind(trace, kind) == SelectSeq(trace, LAMBDA e : e.kind = kind)

\* thread t runs a method that destroys the nodes of the chain
Destroying(t) == th[t].op \in {"Destroy", "ReloadSelf"}

(***************************************************************************)
(* C8. When ReloadSelf returns, the reload hooks it has called are the     *)
(* first ones of the list, in list order, each with the chain itself and   *)
(* the result of the decoding; every one but the last has returned nil; if *)
(* the last has returned an error, that error is the result of ReloadSelf, *)
(* if not, all the hooks were called and the result is the result of the   *)
(* decoding. A failed decoding destroys no node.                           *)
(***************************************************************************)
C8_ReloadHooks ==
    \A t \in Threads :
       th[t].op = "ReloadSelf" /\ th[t].pc = "return" =>
          LET me == th[t]
              calls == OfKind(me.trace, "OnReload")
              n == Len(calls)
          IN  /\ n <= Len(reloadAspects)
              /\ \A i \in 1 .. n :
                    /\ calls[i].hook = reloadAspects[i].name
                    /\ calls[i].node = SelfCtx
                    /\ calls[i].err = me.err
                    /\ i < n => calls[i].ret = NoErr
              /\ IF n > 0 /\ calls[n].ret # NoErr
                 THEN me.ret = calls[n].ret
                 ELSE n = Len(reloadAspects) /\ me.ret = me.err
              /\ me.err \in {NoErr, DecodeErr}
              /\ me.err = DecodeErr => OfKind(me.trace, "Destroy") = <<>> /\ me.ctx = NoCtx

\* the decoding has failed, both reload hooks were called with its error and
\* returned nil, and ReloadSelf returns the error of the decoding
C8_Witness ==
    \E t \in Threads :
       /\ th[t].op = "ReloadSelf" /\ th[t].pc = "return" /\ th[t].err = DecodeErr
       /\ Len(OfKind(th[t].trace, "OnReload")) = 2
       /\ th[t].trace[1].err = DecodeErr /\ th[t].trace[2].hook = "h2"
       /\ th[t].ret = DecodeErr

(***************************************************************************)
(* C9. A destruction, by Destroy or within ReloadSelf, calls Destroy once  *)
(* on every node the chain owns, then OnDestroy once on every destroy hook *)
(* in list order, no hook before the last node. ReloadSelf does so before  *)
(* its swap, and destroys no node of the chain it has decoded.             *)
(***************************************************************************)
C9_DestroyOnceThenHooks ==
    \A t \in Threads :
       LET me == th[t]
           gone == OfKind(me.trace, "Destroy")
           hooks == OfKind(me.trace, "OnDestroy")
       IN  /\ Destroying(t) /\ me.pc = "aspects" =>
                \* the lock is held: the nodes are those of the start
                /\ {gone[i].node : i \in 1 .. Len(gone)} = Range(nodes)
                /\ Len(gone) = Cardinality(Range(nodes))
                /\ hooks = <<>>
           /\ Destroying(t) /\ me.pc \in {"copy", "reload", "return"} /\ me.err = NoErr =>
                /\ Len(hooks) = Len(destroyAspects)
                /\ \A i \in 1 .. Len(hooks) :
                      hooks[i].hook = destroyAspects[i].name /\ hooks[i].node = SelfCtx
                /\ \A i, j \in 1 .. Len(me.trace) :
                      me.trace[i].kind = "OnDestroy" /\ me.trace[j].kind = "Destroy" => j < i
           /\ me.op = "ReloadSelf" /\ me.ctx # NoCtx =>
                /\ \A i \in 1 .. Len(gone) : gone[i].node.inst # me.ctx.inst
                /\ me.pc \in {"destroy", "nodes", "aspects", "copy"}
                      => InstanceAt(Epoch) # me.ctx.inst
                /\ me.pc \in {"reload", "return"} => me.ctx.inst \in Range(installed)

\* {a -> b} was reloaded with {a -> c}: b and a of the old chain were
\* destroyed once, before the swap, and no node of the new chain was
C9_Witness ==
    /\ built = <<DefAB, DefAC>> /\ installed = <<0, 1>>
    /\ th[1].op = "ReloadSelf" /\ th[1].pc = "return" /\ th[2].op = "idle"
    /\ Len(th[1].trace) = 6
    /\ StateOf(NodeCtx(0, 1)).destroyed = 1 /\ StateOf(NodeCtx(0, 0)).destroyed = 1
    /\ \A v \in Range(nodes) : StateOf(v).destroyed = 0

(***************************************************************************)
(* C10. No step of ReloadChild changes the nodes, their order, the routes  *)
(* or the relation cache of the chain. A ReloadChild whose id resolves to  *)
(* no node returns nil and has called neither a node nor a hook; one whose *)
(* id resolves has called ReloadSelf on that node, then the reload hooks.  *)
(***************************************************************************)
C10_ReloadChildFrame ==
    /\ [][(\E t \in Threads : ReloadChild(t))
             => UNCHANGED <<nodes, nodeIds, nodeRoutes, relationCache>>]_vars
    /\ [](\A t \in Threads :
            th[t].op = "ReloadChild" /\ th[t].pc = "return" =>
               IF th[t].ok
               THEN /\ th[t].trace[1] = Event("ReloadSelf", "", th[t].node, NoErr, th[t].err)
                    /\ OfKind(th[t].trace, "OnReload") = Tail(th[t].trace)
               ELSE th[t].ret = NoErr /\ th[t].trace = <<>>)

\* a ReloadChild of node a, whose reload has failed, is over while the relation
\* cache holds the successors of a
C10_Witness ==
    \E t \in Threads :
       /\ th[t].op = "ReloadChild" /\ th[t].pc = "return" /\ th[t].ok
       /\ th[t].err = NodeErr /\ th[t].ret = NodeErr
       /\ th[t].node \in Range(nodes)
       /\ \E key \in DOMAIN relationCache : relationCache[key] # <<>>

\* thread u is inside rc.Destroy(), between its RLock and its RUnlock
InDestroy(u) == Destroying(u) /\ th[u].pc \in {"nodes", "aspects"}

\* thread t reads rc.relationCache, rc.nodeRoutes, rc.nodes or rc.nodeIds
ReadStep(t) ==
    \/ \E id \in Sources, relationType \in Labels : GetNextNodesCache(t, id, relationType)
    \/ GetNextNodesRoutes(t)
    \/ GetNextNodesLoop(t)
    \/ \E index \in Indexes : GetNodeByIndexCall(t, index)
    \/ GetFirstNodeCheck(t)
    \/ GetNodeByIndexRead(t)
    \/ GetNodeByIndexLookup(t)

(***************************************************************************)
(* C11 (as claimed). Destroy holds the lock of the chain in exclusive      *)
(* mode: at most one thread is inside Destroy, and while one is, no other  *)
(* thread reads the cache, the routes, the nodes or their order.           *)
(***************************************************************************)
C11_DestroyExcludesReaders ==
    /\ [](readers <= 1)
    /\ [][\A t \in Threads :
            ReadStep(t) => \A u \in Threads \ {t} : ~InDestroy(u)]_vars

\* the relations of routes[id] with the label relationType, in order
Matching(routes, id, relationType) ==
    IF id \in DOMAIN routes
    THEN SelectSeq(routes[id], LAMBDA r : r.RelationType = relationType)
    ELSE <<>>

\* the target of relation r is a node of ns, or a sub-chain the pool provides
Resolvable(ns, pool, r) ==
    IF r.OutId.Type = CHAIN
    THEN PoolHas(GetRuleChainPool(pool), r.OutId.Id)
    ELSE r.OutId \in DOMAIN ns

\* the NodeCtx a resolvable relation leads to
TargetOf(ns, r) ==
    IF r.OutId.Type = CHAIN THEN SubChainCtx(r.OutId.Id) ELSE ns[r.OutId]

(***************************************************************************)
(* C12. A GetNextNodes call that resolves (misses the cache) on a chain    *)
(* that is not swapped meanwhile returns, for the matching relations of    *)
(* its source whose target resolves, their targets in order; the matching  *)
(* relations whose node is unknown or whose sub-chain the pool does not    *)
(* provide are left out; the boolean is false when nothing is left.        *)
(***************************************************************************)
C12_MissingTargetsOmitted ==
    \A t \in Threads :
       Returned(t) /\ ~th[t].hit /\ th[t].start = Epoch =>
          LET matching == Matching(nodeRoutes, th[t].id, th[t].relationType)
              kept == SelectSeq(matching,
                                LAMBDA r : Resolvable(nodes, ruleChainPool, r))
          IN  /\ th[t].nodeCtxList = [i \in 1 .. Len(kept) |-> TargetOf(nodes, kept[i])]
              /\ th[t].ok = (kept # <<>>)

\* the two Failure relations of {a -> b} lead to an unknown node and to a
\* sub-chain the pool does not have: the call has resolved to nothing
C12_Witness ==
    \E t \in Threads :
       /\ built[1] = DefAB /\ Epoch = 0
       /\ Returned(t) /\ ~th[t].hit /\ th[t].relationType = Failure
       /\ Len(Matching(nodeRoutes, th[t].id, Failure)) = 2
       /\ th[t].nodeCtxList = <<>> /\ ~th[t].ok

(***************************************************************************)
(* C16. The boolean GetNextNodes returns is true exactly when the list it  *)
(* returns is not empty, on a miss as on a hit; the boolean of a hit is    *)
(* the one of a resolution of the list found in the cache.                 *)
(***************************************************************************)
C16_FoundIffNonEmpty ==
    \A t \in Threads :
       Returned(t) =>
          /\ th[t].ok <=> Len(th[t].nodeCtxList) > 0
          /\ \A u \in Threads :
                /\ Returned(u) /\ th[u].hit /\ ~th[t].hit
                /\ th[u].nodeCtxList = th[t].nodeCtxList
                => th[u].ok = th[t].ok

\* one call has resolved to the empty list and stored it, another has found
\* it in the cache: both have answered false
C16_Witness ==
    /\ Returned(1) /\ ~th[1].hit /\ th[1].nodeCtxList = <<>> /\ ~th[1].ok
    /\ Returned(2) /\ th[2].hit /\ th[2].nodeCtxList = <<>> /\ ~th[2].ok
    /\ <<th[2].id, th[2].relationType>> \in DOMAIN relationCache

\* the (1-based) positions of the node definitions of def that have the id
PositionsOf(def, id) == {i \in 1 .. Len(def.Nodes) : NodeIdAt(def, i) = id}

(***************************************************************************)
(* C13. In a chain built from a definition, nodeIds[i] is the id of the    *)
(* i-th node definition, node<i> (counted from 0) when that definition has *)
(* none; nodes holds under every such id the node built from the last      *)
(* definition with that id, and nothing else; GetNodeById finds exactly    *)
(* these nodes, and the connections that name them resolve to them.        *)
(***************************************************************************)
C13_NodeIdsOfBuild ==
    LET def == SelfDefinition IN
    /\ Len(nodeIds) = Len(def.Nodes)
    /\ \A i \in 1 .. Len(def.Nodes) :
          /\ nodeIds[i] = RuleNodeId(NodeIdAt(def, i), NODE)
          /\ def.Nodes[i] = "" => nodeIds[i].Id = <<"node0", "node1", "node2">>[i]
          /\ nodeIds[i] \in DOMAIN nodes
          /\ nodes[nodeIds[i]] = NodeCtx(0, Max(PositionsOf(def, nodeIds[i].Id)) - 1)
    /\ DOMAIN nodes = {nodeIds[i] : i \in 1 .. Len(nodeIds)}
    /\ \A t \in Threads :
          /\ th[t].op = "GetNodeById" /\ th[t].pc = "return" /\ th[t].id.Type = NODE =>
                /\ th[t].ok <=> PositionsOf(def, th[t].id.Id) # {}
                /\ th[t].ok => th[t].node = NodeTarget(def, 0, th[t].id.Id)
          /\ Returned(t) /\ ~th[t].hit => th[t].nodeCtxList = ExpectedAt(0, t)

\* S2: the second node without an id is found as node1, and is the successor
\* of node0
C13_Witness ==
    /\ SelfDefinition = DefAuto
    /\ th[1].op = "GetNextNodes" /\ th[1].pc = "return"
    /\ th[1].id = RuleNodeId("node0", NODE) /\ th[1].nodeCtxList = <<NodeCtx(0, 1)>>
    /\ th[2].op = "GetNodeById" /\ th[2].pc = "return"
    /\ th[2].id = RuleNodeId("node1", NODE) /\ th[2].ok /\ th[2].node = NodeCtx(0, 1)

\* the secrets of a chain built from def are those of its configuration,
\* decrypted where the engine's key decrypts them
SecretsOf(def, secrets) ==
    LET entry == def.Configuration.Secrets IN
    IF def.Configuration.nil
    THEN DOMAIN secrets = {}
    ELSE /\ DOMAIN secrets = DOMAIN entry
         /\ \A key \in DOMAIN entry :
               secrets[key] = IF entry[key].enc = SecretKey
                              THEN Plain(entry[key].text)
                              ELSE entry[key]

(***************************************************************************)
(* C14. The decryptSecrets of every chain InitRuleChainCtx builds (the     *)
(* chain at the start, and the chains ReloadSelf decodes and installs) has *)
(* the keys of the secrets entry of its definition; a value the engine's   *)
(* key decrypts is stored as its plaintext, any other value as it is.      *)
(***************************************************************************)
C14_SecretsDecryptedOrKept ==
    /\ SecretsOf(SelfDefinition, decryptSecrets)
    /\ \A t \in Threads :
          th[t].ctx # NoCtx => SecretsOf(th[t].ctx.SelfDefinition, th[t].ctx.decryptSecrets)

\* ReloadSelf has built {a -> c}: s1 is stored in plaintext, s2, encrypted with
\* another key, as the ciphertext it was
C14_Witness ==
    \E t \in Threads :
       /\ th[t].op = "ReloadSelf" /\ th[t].ctx # NoCtx
       /\ th[t].ctx.SelfDefinition = DefAC
       /\ th[t].ctx.decryptSecrets =
             ("s1" :> Plain("p1") @@ "s2" :> Encrypt("p2", "other"))

(***************************************************************************)
(* C15 (as claimed). While Destroy is called only by ReloadSelf, a         *)
(* GetNextNodes call never returns a node of the chain on which Destroy    *)
(* has run by the time of the return.                                      *)
(***************************************************************************)
C15_NoDestroyedNodeReturned ==
    [][\A t \in Threads :
          th'[t].op = "GetNextNodes" /\ th'[t].pc = "return" /\ th[t].pc # "return" =>
             \A i \in 1 .. Len(th'[t].nodeCtxList) :
                StateOf(th'[t].nodeCtxList[i]).destroyed = 0]_vars

\* thread t takes a step of ReloadSelf
ReloadSelfStep(t) ==
    /\ th'[t] # th[t]
    /\ th[t].op = "ReloadSelf" \/ th'[t].op = "ReloadSelf"

\* the fields of the chain are those of the context ctx
InstalledFrom(ctx) ==
    /\ Id = ctx.Id /\ SelfDefinition = ctx.SelfDefinition
    /\ nodeIds = ctx.nodeIds /\ nodes = ctx.nodes /\ nodeRoutes = ctx.nodeRoutes
    /\ Vars = ctx.Vars /\ decryptSecrets = ctx.decryptSecrets

(***************************************************************************)
(* C17. A ReloadSelf whose decoding fails changes no field of the chain    *)
(* and destroys nothing, and calls no destroy hook. A ReloadSelf whose     *)
(* decoding succeeds has, when it calls the reload hooks, destroyed the    *)
(* nodes and installed the decoded chain; the hooks and the return change  *)
(* no field, so the chain stays installed when a hook returns an error.    *)
(***************************************************************************)
C17_ReloadSelfFrame ==
    /\ [][\A t \in Threads :
            ReloadSelfStep(t) /\ (th[t].err = DecodeErr \/ th'[t].err = DecodeErr)
               => UNCHANGED <<chainVars, nodeState>>]_vars
    /\ [][\A t \in Threads :
            ReloadSelfStep(t) /\ th[t].pc \in {"reload", "return"}
               => UNCHANGED <<chainVars, nodeState>>]_vars
    /\ [](\A t \in Threads :
            th[t].op = "ReloadSelf" /\ th[t].pc \in {"reload", "return"} =>
               IF th[t].err = DecodeErr
               THEN OfKind(th[t].trace, "Destroy") = <<>>
                    /\ OfKind(th[t].trace, "OnDestroy") = <<>>
               ELSE /\ \E e \in 1 .. Epoch : InstanceAt(e) = th[t].ctx.inst
                    /\ InstanceAt(Epoch) = th[t].ctx.inst => InstalledFrom(th[t].ctx)
                    /\ \A e \in Range(OfKind(th[t].trace, "Destroy")) :
                          StateOf(e.node).destroyed >= 1)

\* {a -> b} was reloaded with {a -> c}, the first reload hook has returned an
\* error, which ReloadSelf returns: the new chain is installed, the old nodes
\* are destroyed
C17_Witness ==
    \E t \in Threads :
       /\ th[t].op = "ReloadSelf" /\ th[t].pc = "return"
       /\ th[t].err = NoErr /\ th[t].ret = HookErr(Aspect("h1", TRUE, TRUE))
       /\ built = <<DefAB, DefAC>> /\ SelfDefinition = DefAC
       /\ InstalledFrom(th[t].ctx) /\ relationCache = EmptyMap
       /\ StateOf(NodeCtx(0, 0)).destroyed = 1 /\ StateOf(NodeCtx(0, 1)).destroyed = 1

(***************************************************************************)
(* C18. The swap of ReloadSelf gives the chain the id, definition,         *)
(* nodeIds, nodes, routes, pool, aspects, hooks, vars and secrets of the   *)
(* decoded chain and an empty cache. The pool of the decoded chain is      *)
(* unset, so after the swap the chain resolves the sub-chain targets with  *)
(* the default pool, as a chain freshly built from the definition does,    *)
(* whatever pool was installed before.                                     *)
(***************************************************************************)
C18_CopyInstallsEveryField ==
    /\ [][\A t \in Threads :
            th[t].op = "ReloadSelf" /\ th[t].pc = "copy" /\ th'[t].pc = "reload" =>
               LET other == th[t].ctx IN
               /\ Id' = other.Id /\ SelfDefinition' = other.SelfDefinition
               /\ nodeIds' = other.nodeIds /\ nodes' = other.nodes
               /\ nodeRoutes' = other.nodeRoutes
               /\ ruleChainPool' = other.ruleChainPool /\ ruleChainPool' = NilPool
               /\ aspects' = other.aspects /\ reloadAspects' = other.reloadAspects
               /\ destroyAspects' = other.destroyAspects
               /\ Vars' = other.Vars /\ decryptSecrets' = other.decryptSecrets
               /\ relationCache' = EmptyMap]_vars
    /\ [](\A t \in Threads :
            /\ Returned(t) /\ ~th[t].hit /\ th[t].start = Epoch
            /\ Epoch >= 1 /\ ruleChainPool = NilPool
            => th[t].nodeCtxList =
                  ExpectedNext(DefinitionAt(Epoch), InstanceAt(Epoch), NilPool,
                               th[t].id, th[t].relationType))

\* a call has resolved the Failure successors of DefMulti with the installed
\* pool (sub2, not sub1); then the chain was reloaded and its pool is unset
C18_Witness ==
    \E t \in Threads :
       /\ built[1] = DefMulti /\ Epoch = 1 /\ ruleChainPool = NilPool
       /\ Returned(t) /\ th[t].start = 0 /\ th[t].relationType = Failure
       /\ th[t].nodeCtxList = <<NodeCtx(0, 0), SubChainCtx("sub2")>>

(***************************************************************************)
(* C19. SetAspects(a) is atomic with respect to ReloadSelf: once           *)
(* SetAspects(a) has returned and no other call is running, the aspects of *)
(* the chain are a and its reload and destroy hooks are those of a.        *)
(***************************************************************************)
C19_SetAspectsAtomic ==
    \A t \in Threads :
       /\ th[t].op = "SetAspects" /\ th[t].pc = "return"
       /\ \A u \in Threads \ {t} : th[u].op = "idle" \/ th[u] = th[t]
       => /\ aspects = th[t].aspects
          /\ reloadAspects = GetEngineAspects(th[t].aspects).reload
          /\ destroyAspects = GetEngineAspects(th[t].aspects).destroy

(***************************************************************************)
(* C20. A build fails, and returns no chain, when the node builder fails   *)
(* for any of the definition's nodes. Init returns nil and changes nothing *)
(* when the configuration has no selfDefinition or one that is no chain    *)
(* definition; it returns the build's error and changes nothing when the   *)
(* build of the selfDefinition fails; otherwise it installs the fields of  *)
(* the chain built from the selfDefinition, with an empty cache, and       *)
(* returns nil.                                                            *)
(***************************************************************************)
C20_InitFrame ==
    /\ [][\A t \in Threads :
            th[t].op = "idle" /\ th'[t].op = "Init" =>
               LET me == th'[t]
                   c == me.configuration
               IN  /\ UNCHANGED <<chainVars, nodeState, installed>>
                   /\ IF ~c.has \/ ~c.isRuleChain
                      THEN me.pc = "return" /\ me.ret = NoErr /\ me.ctx = NoCtx
                      ELSE IF \E i \in 1 .. Len(c.def.Nodes) : c.def.Nodes[i] = BadNode
                      THEN me.pc = "return" /\ me.ret # NoErr /\ me.ctx = NoCtx
                      ELSE me.pc = "copy" /\ me.ctx.SelfDefinition = c.def]_vars
    /\ [][\A t \in Threads :
            th[t].op = "Init" /\ th[t].pc = "copy" /\ th'[t] # th[t] =>
               LET other == th[t].ctx IN
               /\ th'[t].pc = "return" /\ th'[t].ret = NoErr
               /\ SelfDefinition' = th[t].configuration.def
               /\ Id' = other.Id /\ nodeIds' = other.nodeIds /\ nodes' = other.nodes
               /\ nodeRoutes' = other.nodeRoutes
               /\ Vars' = other.Vars /\ decryptSecrets' = other.decryptSecrets
               /\ relationCache' = EmptyMap
               /\ installed' = Append(installed, other.inst)]_vars
    /\ [][\A t \in Threads :
            th[t].op = "Init" /\ th[t].pc = "return" /\ th'[t] # th[t] =>
               UNCHANGED <<chainVars, nodeState, installed>>]_vars

\* Init has returned the error of a build that failed at the second node,
\* on a chain whose cache holds an entry
C20_Witness ==
    \E t \in Threads :
       /\ th[t].op = "Init" /\ th[t].pc = "return"
       /\ th[t].configuration = WithSelfDefinition(DefBad)
       /\ th[t].ret = NodeBuildErr(BadNode)
       /\ relationCache # EmptyMap /\ Epoch = 0

====
